---- MODULE Spec2Model ----
(***************************************************************************)
(* Host-metrics sampler (ref-rust/src/main.rs).                            *)
(*                                                                         *)
(* Text is modelled character by character: a String is a sequence of      *)
(* one-character strings.  An io::Result<String> is a record               *)
(* [ok, data]; an Option is a record [some, val].  The file system is a    *)
(* function from the four paths to io::Result<String>.                     *)
(*                                                                         *)
(* Numbers: every token the model feeds to a parser is short, so the       *)
(* parsed values stay far below 2^31 and u64 overflow (parse::<u64>        *)
(* returning Err, `as u64` saturating at u64::MAX) is outside the inputs.  *)
(* The input alphabets hold no letter of "inf", "nan" or an exponent, so   *)
(* the decimal grammar below is all of f64::from_str on these inputs, and  *)
(* with so few digits the binary rounding of f64 never crosses an integer. *)
(***************************************************************************)
EXTENDS Integers, Sequences, FiniteSets, TLC

VARIABLES
    files,          \* the four sources: path -> io::Result<String>
    pc,             \* position of main
    interval,       \* main's `interval`, in seconds (0 before line 42 ran)
    hostname,       \* main's `hostname`
    uptime,         \* the loop body's `uptime`
    mem_total_kb,   \* the loop body's `mem_total_kb`
    mem_free_kb,    \* the loop body's `mem_free_kb`
    load_1m,        \* the loop body's `load_1m`
    stdout,         \* the last line written to standard output
    lastSleep,      \* seconds of the last completed thread::sleep (0: none yet)
    hostLog,        \* history: result of every read of the hostname source
    readLog,        \* history: the reads of the current cycle, in order
    emits,          \* history: lines printed in the current cycle
    dirty,          \* history: a source changed since the current cycle began
    stableOut,      \* history: lines printed by cycles run wholly after the last change
    stableCount     \* history: how many such lines (saturating)

vars ==
    <<files, pc, interval, hostname, uptime, mem_total_kb, mem_free_kb, load_1m,
      stdout, lastSleep, hostLog, readLog, emits, dirty, stableOut, stableCount>>

----------------------------------------------------------------------------
(* Bounds of the model *)

MaxLen ==
    4

MaxTail ==
    2

MaxStable ==
    2

----------------------------------------------------------------------------
(* Program constants *)

IntervalSecs ==
    30

UptimePath ==
    "/proc/uptime"

MeminfoPath ==
    "/proc/meminfo"

LoadavgPath ==
    "/proc/loadavg"

HostnamePath ==
    "/etc/hostname"

Paths ==
    {UptimePath, MeminfoPath, LoadavgPath, HostnamePath}

MemTotalKey ==
    <<"M", "e", "m", "T", "o", "t", "a", "l", ":">>

MemFreeKey ==
    <<"M", "e", "m", "F", "r", "e", "e", ":">>

Unknown ==
    <<"u", "n", "k", "n", "o", "w", "n">>

DefaultLoad ==
    <<"0", ".", "0", "0">>

KeyHostname ==
    <<"{", "\"", "h", "o", "s", "t", "n", "a", "m", "e", "\"", ":", "\"">>

KeyUptime ==
    <<"\"", ",", "\"", "u", "p", "t", "i", "m", "e", "\"", ":">>

KeyMemTotal ==
    <<",", "\"", "m", "e", "m", "_", "t", "o", "t", "a", "l", "_", "k", "b", "\"", ":">>

KeyMemFree ==
    <<",", "\"", "m", "e", "m", "_", "f", "r", "e", "e", "_", "k", "b", "\"", ":">>

KeyLoad ==
    <<",", "\"", "l", "o", "a", "d", "_", "1", "m", "\"", ":", "\"">>

Closing ==
    <<"\"", "}">>

NL ==
    "\n"

CR ==
    "\r"

QUOTE ==
    "\""

----------------------------------------------------------------------------
(* io::Result<String> and Option *)

Ok(s) ==
    [ok |-> TRUE, data |-> s]

Absent ==
    [ok |-> FALSE, data |-> <<>>]

Some(v) ==
    [some |-> TRUE, val |-> v]

None ==
    [some |-> FALSE]

read_to_string(fs, path) ==
    fs[path]

unwrap_or_default(r) ==
    IF r.ok THEN r.data ELSE <<>>

----------------------------------------------------------------------------
(* The pieces of std the readers use *)

IsWhitespace(c) ==
    c \in {" ", "\t", NL, CR}

DigitChars ==
    <<"0", "1", "2", "3", "4", "5", "6", "7", "8", "9">>

IsDigit(c) ==
    \E d \in 1..10 : DigitChars[d] = c

DigitValue(c) ==
    (CHOOSE d \in 1..10 : DigitChars[d] = c) - 1

\* Option::unwrap_or.  Here and in the other Option steps the option is bound
\* once (v), as a closure's argument is.
unwrap_or(o, default) ==
    CHOOSE r \in {IF v.some THEN v.val ELSE default : v \in {o}} : TRUE

\* str::split_whitespace: the maximal runs of non-whitespace, left to right.
split_whitespace(s) ==
    LET n == Len(s)
        tokenEnd[j \in 1..n] ==
            IF j = n \/ IsWhitespace(s[j + 1]) THEN j ELSE tokenEnd[j + 1]
        rest[i \in 1..(n + 1)] ==
            IF i > n
            THEN <<>>
            ELSE IF IsWhitespace(s[i])
                 THEN rest[i + 1]
                 ELSE <<SubSeq(s, i, tokenEnd[i])>> \o rest[tokenEnd[i] + 1]
    IN  rest[1]

\* Iterator::nth (0-based) and Iterator::next.
nth(it, n) ==
    CHOOSE r \in {IF Len(v) > n THEN Some(v[n + 1]) ELSE None : v \in {it}} : TRUE

next(it) ==
    nth(it, 0)

StripCR(line) ==
    IF line # <<>> /\ line[Len(line)] = CR
    THEN SubSeq(line, 1, Len(line) - 1)
    ELSE line

\* str::lines: split at "\n" (a "\r" before it goes too); the last line need
\* not be terminated, and a final "\n" opens no further line.
lines(s) ==
    LET n == Len(s)
        lineEnd[j \in 1..(n + 1)] ==
            IF j > n \/ s[j] = NL THEN j ELSE lineEnd[j + 1]
        rest[i \in 1..(n + 1)] ==
            IF i > n
            THEN <<>>
            ELSE IF lineEnd[i] > n
                 THEN <<SubSeq(s, i, n)>>
                 ELSE <<StripCR(SubSeq(s, i, lineEnd[i] - 1))>> \o rest[lineEnd[i] + 1]
    IN  rest[1]

starts_with(line, key) ==
    /\ Len(line) >= Len(key)
    /\ SubSeq(line, 1, Len(key)) = key

RECURSIVE FindFrom(_, _, _)
FindFrom(ls, i, key) ==
    IF i > Len(ls)
    THEN None
    ELSE IF starts_with(ls[i], key)
         THEN Some(ls[i])
         ELSE FindFrom(ls, i + 1, key)

\* Iterator::find with the predicate |line| line.starts_with(key).
find(ls, key) ==
    CHOOSE r \in {FindFrom(v, 1, key) : v \in {ls}} : TRUE

RECURSIVE TrimStart(_)
TrimStart(s) ==
    IF s # <<>> /\ IsWhitespace(Head(s)) THEN TrimStart(Tail(s)) ELSE s

RECURSIVE TrimEnd(_)
TrimEnd(s) ==
    IF s # <<>> /\ IsWhitespace(s[Len(s)])
    THEN TrimEnd(SubSeq(s, 1, Len(s) - 1))
    ELSE s

trim(s) ==
    TrimEnd(TrimStart(s))

RECURSIVE DigitsToNat(_)
DigitsToNat(ds) ==
    IF ds = <<>>
    THEN 0
    ELSE 10 * DigitsToNat(SubSeq(ds, 1, Len(ds) - 1)) + DigitValue(ds[Len(ds)])

AllDigits(s) ==
    \A i \in 1..Len(s) : IsDigit(s[i])

\* str::parse::<u64>: an optional "+", then one or more digits.
parse_u64(tok) ==
    LET body == IF tok # <<>> /\ Head(tok) = "+" THEN Tail(tok) ELSE tok
    IN  IF body # <<>> /\ AllDigits(body)
        THEN Some(DigitsToNat(body))
        ELSE None

\* str::parse::<f64>: an optional sign, then digits with at most one ".",
\* at least one digit in all.  The value is kept as sign, whole digits and
\* fraction digits.
parse_f64(tok) ==
    LET signed == tok # <<>> /\ Head(tok) \in {"+", "-"}
        body   == IF signed THEN Tail(tok) ELSE tok
        dots   == {i \in 1..Len(body) : body[i] = "."}
        wellFormed ==
            /\ Cardinality(dots) <= 1
            /\ \A i \in 1..Len(body) : IsDigit(body[i]) \/ body[i] = "."
            /\ \E i \in 1..Len(body) : IsDigit(body[i])
        dot    == IF dots = {} THEN Len(body) + 1 ELSE CHOOSE i \in dots : TRUE
    IN  IF wellFormed
        THEN Some([neg   |-> signed /\ Head(tok) = "-",
                   whole |-> DigitsToNat(SubSeq(body, 1, dot - 1)),
                   frac  |-> SubSeq(body, dot + 1, Len(body))])
        ELSE None

\* Mutant of as_u64: the value is rounded to the nearest integer.
as_u64_rounded(f) ==
    IF f.neg
    THEN 0
    ELSE IF f.frac # <<>> /\ DigitValue(Head(f.frac)) >= 5 THEN f.whole + 1 ELSE f.whole

\* `f as u64`: the fraction is dropped; a negative value saturates to 0.
as_u64(f) ==
    IF f.neg THEN 0 ELSE f.whole

\* .and_then(|s| s.parse::<f64>().ok())
and_then_parse_f64(o) ==
    CHOOSE r \in {IF v.some THEN parse_f64(v.val) ELSE None : v \in {o}} : TRUE

\* .map(|f| f as u64)
map_as_u64(o) ==
    CHOOSE r \in {IF v.some THEN Some(as_u64(v.val)) ELSE None : v \in {o}} : TRUE

\* .and_then(|line| line.split_whitespace().nth(1))
and_then_second_token(o) ==
    CHOOSE r \in {IF v.some THEN nth(split_whitespace(v.val), 1) ELSE None : v \in {o}} : TRUE

\* .and_then(|s| s.parse().ok())
and_then_parse_u64(o) ==
    CHOOSE r \in {IF v.some THEN parse_u64(v.val) ELSE None : v \in {o}} : TRUE

\* Display for u64: decimal, no leading zeros.
RECURSIVE to_decimal(_)
to_decimal(n) ==
    IF n < 10
    THEN <<DigitChars[n + 1]>>
    ELSE to_decimal(n \div 10) \o <<DigitChars[(n % 10) + 1]>>

----------------------------------------------------------------------------
(* The four readers *)

read_uptime(fs) ==
    LET text   == unwrap_or_default(read_to_string(fs, UptimePath))
        first  == next(split_whitespace(text))
        parsed == and_then_parse_f64(first)
        cast   == map_as_u64(parsed)
    IN  unwrap_or(cast, 0)

\* Mutant of read_meminfo: a matching line whose token does not parse is
\* skipped and the next matching line is tried.
read_meminfo_fallthrough(fs, key) ==
    LET ls   == lines(unwrap_or_default(read_to_string(fs, MeminfoPath)))
        good == {i \in 1..Len(ls) :
                    /\ starts_with(ls[i], key)
                    /\ nth(split_whitespace(ls[i]), 1).some
                    /\ parse_u64(nth(split_whitespace(ls[i]), 1).val).some}
    IN  IF good = {}
        THEN 0
        ELSE parse_u64(nth(split_whitespace(ls[CHOOSE i \in good : \A j \in good : i <= j]), 1).val).val

read_meminfo(fs, key) ==
    LET text   == unwrap_or_default(read_to_string(fs, MeminfoPath))
        found  == find(lines(text), key)
        second == and_then_second_token(found)
        parsed == and_then_parse_u64(second)
    IN  unwrap_or(parsed, 0)

\* Display of an f64 value: no trailing zeros in the fraction.
Reformatted(f) ==
    LET nz   == {i \in 1..Len(f.frac) : f.frac[i] # "0"}
        keep == IF nz = {}
                THEN <<>>
                ELSE SubSeq(f.frac, 1, CHOOSE a \in nz : \A b \in nz : a >= b)
    IN  (IF f.neg THEN <<"-">> ELSE <<>>) \o to_decimal(f.whole)
            \o (IF keep = <<>> THEN <<>> ELSE <<".">> \o keep)

\* Mutant of read_loadavg: the token goes through f64 and back to text.
read_loadavg_numeric(fs) ==
    LET text  == unwrap_or_default(read_to_string(fs, LoadavgPath))
        first == next(split_whitespace(text))
    IN  CHOOSE r \in {IF ~v.some
                      THEN DefaultLoad
                      ELSE IF parse_f64(v.val).some
                           THEN Reformatted(parse_f64(v.val).val)
                           ELSE v.val : v \in {first}} : TRUE

\* Mutant of read_loadavg: a failed uptime read also defaults the load figure.
read_loadavg_coupled(fs) ==
    LET text  == unwrap_or_default(read_to_string(fs, LoadavgPath))
        first == next(split_whitespace(text))
    IN  IF read_to_string(fs, UptimePath).ok THEN unwrap_or(first, DefaultLoad) ELSE DefaultLoad

read_loadavg(fs) ==
    LET text  == unwrap_or_default(read_to_string(fs, LoadavgPath))
        first == next(split_whitespace(text))
    IN  unwrap_or(first, DefaultLoad)

read_hostname(fs) ==
    LET r == read_to_string(fs, HostnamePath)
    IN  trim(IF r.ok THEN r.data ELSE Unknown)

\* The format string of println!, without the newline println! appends.
format_record(h, u, t, f, l) ==
    KeyHostname \o h \o KeyUptime \o to_decimal(u) \o KeyMemTotal \o to_decimal(t)
        \o KeyMemFree \o to_decimal(f) \o KeyLoad \o l \o Closing

println(text) ==
    text \o <<NL>>

----------------------------------------------------------------------------
(* History bookkeeping *)

ReadEvent(reader, path) ==
    [reader |-> reader, path |-> path, result |-> files[path]]

Min(a, b) ==
    IF a < b THEN a ELSE b

Logged(reader) ==
    \E i \in 1..Len(readLog) : readLog[i].reader = reader

\* What the source held when `reader` read it in the current cycle.
ResultOf(reader) ==
    readLog[CHOOSE i \in 1..Len(readLog) : readLog[i].reader = reader].result

----------------------------------------------------------------------------
(* main *)

\* Lines 42-43: INIT.
ReadHostname ==
    /\ pc = "init"
    /\ interval' = IntervalSecs
    /\ hostname' = read_hostname(files)
    /\ hostLog' = Append(hostLog, files[HostnamePath])
    /\ dirty' = FALSE
    /\ pc' = "uptime"
    /\ UNCHANGED <<files, uptime, mem_total_kb, mem_free_kb, load_1m, stdout,
                   lastSleep, readLog, emits, stableOut, stableCount>>

\* Mutant of SampleUptime: the read is unwrapped, so a failed read panics.
SampleUptimeUnwrap ==
    /\ pc = "uptime"
    /\ uptime' = read_uptime(files)
    /\ readLog' = Append(readLog, ReadEvent("uptime", UptimePath))
    /\ pc' = IF read_to_string(files, UptimePath).ok THEN "memtotal" ELSE "panicked"
    /\ UNCHANGED <<files, interval, hostname, mem_total_kb, mem_free_kb, load_1m,
                   stdout, lastSleep, hostLog, emits, dirty, stableOut, stableCount>>

\* Line 46.
SampleUptime ==
    /\ pc = "uptime"
    /\ uptime' = read_uptime(files)
    /\ readLog' = Append(readLog, ReadEvent("uptime", UptimePath))
    /\ pc' = "memtotal"
    /\ UNCHANGED <<files, interval, hostname, mem_total_kb, mem_free_kb, load_1m,
                   stdout, lastSleep, hostLog, emits, dirty, stableOut, stableCount>>

\* Line 47.
SampleMemTotal ==
    /\ pc = "memtotal"
    /\ mem_total_kb' = read_meminfo(files, MemTotalKey)
    /\ readLog' = Append(readLog, ReadEvent("memtotal", MeminfoPath))
    /\ pc' = "memfree"
    /\ UNCHANGED <<files, interval, hostname, uptime, mem_free_kb, load_1m,
                   stdout, lastSleep, hostLog, emits, dirty, stableOut, stableCount>>

\* Mutant of SampleMemFree: the text read for "MemTotal:" is reused.
SampleMemFreeCached ==
    /\ pc = "memfree"
    /\ mem_free_kb' = read_meminfo([files EXCEPT ![MeminfoPath] = ResultOf("memtotal")], MemFreeKey)
    /\ pc' = "loadavg"
    /\ UNCHANGED <<files, interval, hostname, uptime, mem_total_kb, load_1m, readLog,
                   stdout, lastSleep, hostLog, emits, dirty, stableOut, stableCount>>

\* Line 48.
SampleMemFree ==
    /\ pc = "memfree"
    /\ mem_free_kb' = read_meminfo(files, MemFreeKey)
    /\ readLog' = Append(readLog, ReadEvent("memfree", MeminfoPath))
    /\ pc' = "loadavg"
    /\ UNCHANGED <<files, interval, hostname, uptime, mem_total_kb, load_1m,
                   stdout, lastSleep, hostLog, emits, dirty, stableOut, stableCount>>

\* Line 49.
SampleLoadavg ==
    /\ pc = "loadavg"
    /\ load_1m' = read_loadavg(files)
    /\ readLog' = Append(readLog, ReadEvent("loadavg", LoadavgPath))
    /\ pc' = "print"
    /\ UNCHANGED <<files, interval, hostname, uptime, mem_total_kb, mem_free_kb,
                   stdout, lastSleep, hostLog, emits, dirty, stableOut, stableCount>>

\* Mutant of Emit: when the uptime read gave nothing, the previous line is
\* printed again.
EmitSticky ==
    /\ pc = "print"
    /\ stdout' = IF uptime = 0 /\ stdout # <<>>
                 THEN stdout
                 ELSE println(format_record(hostname, uptime, mem_total_kb, mem_free_kb, load_1m))
    /\ emits' = emits + 1
    /\ IF dirty
       THEN UNCHANGED <<stableOut, stableCount>>
       ELSE /\ stableOut' = stableOut \cup {stdout'}
            /\ stableCount' = Min(stableCount + 1, MaxStable)
    /\ pc' = "sleep"
    /\ UNCHANGED <<files, interval, hostname, uptime, mem_total_kb, mem_free_kb,
                   load_1m, lastSleep, hostLog, readLog, dirty>>

\* Lines 51-54.
Emit ==
    /\ pc = "print"
    /\ stdout' = println(format_record(hostname, uptime, mem_total_kb, mem_free_kb, load_1m))
    /\ emits' = emits + 1
    /\ IF dirty
       THEN UNCHANGED <<stableOut, stableCount>>
       ELSE /\ stableOut' = stableOut \cup {stdout'}
            /\ stableCount' = Min(stableCount + 1, MaxStable)
    /\ pc' = "sleep"
    /\ UNCHANGED <<files, interval, hostname, uptime, mem_total_kb, mem_free_kb,
                   load_1m, lastSleep, hostLog, readLog, dirty>>

\* Mutant of Sleep: the hostname is resolved again for every cycle.
SleepRereadsHostname ==
    /\ pc = "sleep"
    /\ lastSleep' = interval
    /\ hostname' = read_hostname(files)
    /\ hostLog' = Append(hostLog, files[HostnamePath])
    /\ uptime' = 0
    /\ mem_total_kb' = 0
    /\ mem_free_kb' = 0
    /\ load_1m' = <<>>
    /\ readLog' = <<>>
    /\ emits' = 0
    /\ dirty' = FALSE
    /\ pc' = "uptime"
    /\ UNCHANGED <<files, interval, stdout, stableOut, stableCount>>

\* Lines 56-57: the sleep ends and the loop body starts again; the bindings of
\* the finished iteration are gone.
Sleep ==
    /\ pc = "sleep"
    /\ lastSleep' = interval
    /\ uptime' = 0
    /\ mem_total_kb' = 0
    /\ mem_free_kb' = 0
    /\ load_1m' = <<>>
    /\ readLog' = <<>>
    /\ emits' = 0
    /\ dirty' = FALSE
    /\ pc' = "uptime"
    /\ UNCHANGED <<files, interval, hostname, stdout, hostLog, stableOut, stableCount>>

Step ==
    \/ ReadHostname
    \/ SampleUptime
    \/ SampleMemTotal
    \/ SampleMemFree
    \/ SampleLoadavg
    \/ Emit
    \/ Sleep

----------------------------------------------------------------------------
(* The sources: what the platform can hold in the four pseudo-files *)

HostNode1 ==
    <<"n", "o", "d", "e", "1", "\n">>

HostMyhost ==
    <<"m", "y", "h", "o", "s", "t", "\n">>

Uptime100 ==
    <<"1", "0", "0", ".", "0", " ", "0">>

UptimeExample ==
    <<"1", "2", "3", "4", "5", ".", "6", "7", " ", "6", "7", "8", "9", ".", "0", "1">>

UptimePlus ==
    <<"+", "7", ".", "9">>

UptimeLetters ==
    <<"7", "x", " ", "7">>

MeminfoA ==
    <<"M", "e", "m", "T", "o", "t", "a", "l", ":", " ", "8", "0", "0", "0", "0", "0", "0", " ", "k", "B", "\n", "M", "e", "m", "F", "r", "e", "e", ":", " ", "4", "0", "0", "0", "0", "0", "0", " ", "k", "B", "\n">>

MeminfoB ==
    <<"M", "e", "m", "F", "r", "e", "e", ":", " ", "3", "9", "9", "9", "0", "0", "0", " ", "k", "B", "\n">>

MeminfoExample ==
    <<"M", "e", "m", "F", "r", "e", "e", ":", " ", "4", "0", "0", "0", "0", "0", "0", " ", "k", "B", "\n", "M", "e", "m", "T", "o", "t", "a", "l", ":", " ", " ", " ", " ", " ", " ", " ", "1", "6", "3", "8", "4", "0", "0", "0", " ", "k", "B", "\n">>

MeminfoNoFallThrough ==
    <<"M", "e", "m", "T", "o", "t", "a", "l", ":", " ", "x", "\n", "M", "e", "m", "T", "o", "t", "a", "l", ":", " ", "7", "\n", "M", "e", "m", "F", "r", "e", "e", ":", " ", "7", " ", "k", "B">>

LoadavgA ==
    <<"1", ".", "0", "0", " ", "0", ".", "4", "1", " ", "0", ".", "3", "3", " ", "2", "/", "4", "5", "6", " ", "7", "8", "9", "0">>

LoadavgExample ==
    <<"0", ".", "5", "2", " ", "0", ".", "4", "1", " ", "0", ".", "3", "3", " ", "2", "/", "4", "5", "6", " ", "7", "8", "9", "0">>

\* The contents the sources take while main runs (specification Spec).
LiveSources(path) ==
    CASE path = HostnamePath -> {Absent, Ok(HostNode1)}
      [] path = UptimePath   -> {Absent, Ok(Uptime100), Ok(UptimeLetters)}
      [] path = MeminfoPath  -> {Absent, Ok(MeminfoA), Ok(MeminfoB)}
      [] path = LoadavgPath  -> {Absent, Ok(LoadavgA)}

LiveFileSystems ==
    {fs \in [Paths -> UNION {LiveSources(p) : p \in Paths}] :
        \A p \in Paths : fs[p] \in LiveSources(p)}

StringsUpTo(alphabet, n) ==
    UNION {[1..k -> alphabet] : k \in 0..n}

MemPrefixes ==
    {<<>>, MemTotalKey, MemFreeKey, SubSeq(MemTotalKey, 1, Len(MemTotalKey) - 1)}

MemTails ==
    StringsUpTo({" ", "7"}, MaxTail) \cup {<<" ", "x">>, <<" ", "+", "7", " ", "k", "B">>}

MemLines ==
    {p \o t : p \in MemPrefixes, t \in MemTails}

\* Every text a reader is tried on (specification ReaderSpec).
ReaderTexts(path) ==
    CASE path = HostnamePath ->
            StringsUpTo({"h", " ", NL, QUOTE}, MaxLen) \cup {HostNode1, HostMyhost}
      [] path = UptimePath ->
            StringsUpTo({"7", ".", "-", " "}, MaxLen)
                \cup {Uptime100, UptimeExample, UptimePlus, UptimeLetters}
      [] path = MeminfoPath ->
            {<<>>} \cup MemLines \cup {a \o <<NL>> \o b : a \in MemLines, b \in MemLines}
                \cup {MeminfoA, MeminfoB, MeminfoExample, MeminfoNoFallThrough}
      [] path = LoadavgPath ->
            StringsUpTo({"5", ".", " ", NL}, MaxLen) \cup {LoadavgA, LoadavgExample}

ReaderSources(path) ==
    {Absent} \cup {Ok(text) : text \in ReaderTexts(path)}

\* A source is rewritten by the platform.
WriteSource ==
    \E path \in Paths :
        \E r \in LiveSources(path) \ {Absent, files[path]} :
            /\ files' = [files EXCEPT ![path] = r]
            /\ dirty' = TRUE
            /\ stableOut' = {}
            /\ stableCount' = 0
            /\ UNCHANGED <<pc, interval, hostname, uptime, mem_total_kb, mem_free_kb,
                           load_1m, stdout, lastSleep, hostLog, readLog, emits>>

\* A source becomes unreadable.
RemoveSource ==
    \E path \in Paths :
        /\ files[path].ok
        /\ files' = [files EXCEPT ![path] = Absent]
        /\ dirty' = TRUE
        /\ stableOut' = {}
        /\ stableCount' = 0
        /\ UNCHANGED <<pc, interval, hostname, uptime, mem_total_kb, mem_free_kb,
                       load_1m, stdout, lastSleep, hostLog, readLog, emits>>

----------------------------------------------------------------------------
(* Specifications *)

\* The process as it starts, before line 42.
Started ==
    /\ pc = "init"
    /\ interval = 0
    /\ hostname = <<>>
    /\ uptime = 0
    /\ mem_total_kb = 0
    /\ mem_free_kb = 0
    /\ load_1m = <<>>
    /\ stdout = <<>>
    /\ lastSleep = 0
    /\ hostLog = <<>>
    /\ readLog = <<>>
    /\ emits = 0
    /\ dirty = FALSE
    /\ stableOut = {}
    /\ stableCount = 0

Init ==
    /\ files \in LiveFileSystems
    /\ Started

Next ==
    \/ Step
    \/ WriteSource
    \/ RemoveSource

\* main with sources that change under it.
Spec ==
    Init /\ [][Next]_vars

\* The same, with main always scheduled again (a sleep ends, a read returns).
FairSpec ==
    Init /\ [][Next]_vars /\ WF_vars(Step)

ReaderInit ==
    /\ \E path \in Paths :
           \E r \in ReaderSources(path) :
               files = [q \in Paths |-> IF q = path THEN r ELSE Absent]
    /\ Started

\* main over sources that stay as they are: one source holds any text of
\* ReaderSources, the others are absent.
ReaderSpec ==
    ReaderInit /\ [][Step]_vars

TypeOK ==
    /\ pc \in {"init", "uptime", "memtotal", "memfree", "loadavg", "print", "sleep"}
    /\ interval \in {0, IntervalSecs}
    /\ uptime \in Nat
    /\ mem_total_kb \in Nat
    /\ mem_free_kb \in Nat
    /\ emits \in Nat
    /\ dirty \in BOOLEAN
    /\ stableCount \in 0..MaxStable

----------------------------------------------------------------------------
(* What the claims speak of, stated without the readers' own code *)

AbsentOrEmpty(r) ==
    ~r.ok \/ r.data = <<>>

NonWhitespace(s) ==
    {i \in 1..Len(s) : ~IsWhitespace(s[i])}

HasToken(s) ==
    NonWhitespace(s) # {}

\* The first maximal run of non-whitespace characters of s.
FirstTokenOf(s) ==
    LET nw == NonWhitespace(s)
        i  == CHOOSE a \in nw : \A b \in nw : a <= b
        j  == CHOOSE b \in i..Len(s) :
                  /\ \A k \in i..b : k \in nw
                  /\ b = Len(s) \/ (b + 1) \notin nw
    IN  SubSeq(s, i, j)

\* s from its first to its last non-whitespace character.
Trimmed(s) ==
    LET nw == NonWhitespace(s)
    IN  IF nw = {}
        THEN <<>>
        ELSE SubSeq(s, CHOOSE a \in nw : \A b \in nw : a <= b,
                       CHOOSE a \in nw : \A b \in nw : a >= b)

\* A digit string without its leading zeros ("" and "000" give "0").
Canonical(ds) ==
    LET nz == {i \in 1..Len(ds) : ds[i] # "0"}
    IN  IF nz = {}
        THEN <<"0">>
        ELSE SubSeq(ds, CHOOSE a \in nz : \A b \in nz : a <= b, Len(ds))

Unsigned(tok) ==
    IF tok # <<>> /\ Head(tok) = "+" THEN Tail(tok) ELSE tok

IsUnsignedInteger(tok) ==
    Unsigned(tok) # <<>> /\ AllDigits(Unsigned(tok))

Magnitude(tok) ==
    IF tok # <<>> /\ Head(tok) \in {"+", "-"} THEN Tail(tok) ELSE tok

IsDecimal(tok) ==
    LET m == Magnitude(tok)
    IN  /\ \A i \in 1..Len(m) : IsDigit(m[i]) \/ m[i] = "."
        /\ Cardinality({i \in 1..Len(m) : m[i] = "."}) <= 1
        /\ \E i \in 1..Len(m) : IsDigit(m[i])

\* The digits of a decimal token before its "." (all of them when there is none).
WholePart(tok) ==
    LET m == Magnitude(tok)
        before == {j \in 0..Len(m) : \A k \in 1..j : m[k] # "."}
    IN  SubSeq(m, 1, CHOOSE j \in before : \A k \in before : j >= k)

\* value is what read_uptime is to return on a source holding r.
UptimeAgrees(value, r) ==
    LET text == IF r.ok THEN r.data ELSE <<>>
    IN  IF HasToken(text) /\ IsDecimal(FirstTokenOf(text)) /\ Head(FirstTokenOf(text)) # "-"
        THEN to_decimal(value) = Canonical(WholePart(FirstTokenOf(text)))
        ELSE value = 0

\* value is what read_meminfo(key) is to return on a source holding r.
MeminfoAgrees(value, r, key) ==
    LET ls == lines(IF r.ok THEN r.data ELSE <<>>)
        matching == {i \in 1..Len(ls) : starts_with(ls[i], key)}
    IN  IF matching = {}
        THEN value = 0
        ELSE LET first == CHOOSE i \in matching : \A j \in matching : i <= j
                 toks  == split_whitespace(ls[first])
             IN  IF Len(toks) >= 2 /\ IsUnsignedInteger(toks[2])
                 THEN to_decimal(value) = Canonical(Unsigned(toks[2]))
                 ELSE value = 0

\* value is what read_loadavg is to return on a source holding r.
LoadavgAgrees(value, r) ==
    IF r.ok /\ HasToken(r.data)
    THEN value = FirstTokenOf(r.data)
    ELSE value = DefaultLoad

\* value is what read_hostname is to return on a source holding r.
HostnameAgrees(value, r) ==
    value = IF r.ok THEN Trimmed(r.data) ELSE Unknown

IndexOfQuote(s, from) ==
    LET qs == {k \in from..Len(s) : s[k] = QUOTE}
    IN  IF qs = {} THEN 0 ELSE CHOOSE a \in qs : \A b \in qs : a <= b

\* The last index of the run of digits of s that starts at `from` (from - 1: no digit).
DigitsEnd(s, from) ==
    CHOOSE j \in (from - 1)..Len(s) :
        /\ \A k \in from..j : IsDigit(s[k])
        /\ j = Len(s) \/ ~IsDigit(s[j + 1])

Matches(s, from, lit) ==
    /\ from + Len(lit) - 1 <= Len(s)
    /\ SubSeq(s, from, from + Len(lit) - 1) = lit

\* line is one record: the five keys in order, the two string values between
\* quotes, the three integer values bare digits, the closing delimiter, then
\* the newline and nothing else.
WellFormedRecord(line) ==
    /\ line # <<>>
    /\ line[Len(line)] = NL
    /\ \A i \in 1..(Len(line) - 1) : line[i] # NL
    /\ LET body == SubSeq(line, 1, Len(line) - 1)
           h1   == Len(KeyHostname) + 1
           q1   == IndexOfQuote(body, h1)
           u1   == q1 + Len(KeyUptime)
           u2   == DigitsEnd(body, u1)
           t1   == u2 + 1 + Len(KeyMemTotal)
           t2   == DigitsEnd(body, t1)
           f1   == t2 + 1 + Len(KeyMemFree)
           f2   == DigitsEnd(body, f1)
           l1   == f2 + 1 + Len(KeyLoad)
           q2   == IndexOfQuote(body, l1)
       IN  /\ Matches(body, 1, KeyHostname)
           /\ q1 > 0
           /\ Matches(body, q1, KeyUptime)
           /\ u2 >= u1
           /\ Matches(body, u2 + 1, KeyMemTotal)
           /\ t2 >= t1
           /\ Matches(body, t2 + 1, KeyMemFree)
           /\ f2 >= f1
           /\ Matches(body, f2 + 1, KeyLoad)
           /\ q2 > 0
           /\ Matches(body, q2, Closing)
           /\ q2 + Len(Closing) - 1 = Len(body)

----------------------------------------------------------------------------
(* Claims about the readers, under ReaderSpec *)

\* C1: each of the four readers returns its documented default ("unknown",
\* 0, 0, "0.00") whenever its source is absent or holds zero-length content.
C1_DefaultWhenAbsentOrEmpty ==
    /\ (hostLog # <<>> /\ AbsentOrEmpty(hostLog[1])) => hostname = Unknown
    /\ (Logged("uptime") /\ AbsentOrEmpty(ResultOf("uptime"))) => uptime = 0
    /\ (Logged("memtotal") /\ AbsentOrEmpty(ResultOf("memtotal"))) => mem_total_kb = 0
    /\ (Logged("memfree") /\ AbsentOrEmpty(ResultOf("memfree"))) => mem_free_kb = 0
    /\ (Logged("loadavg") /\ AbsentOrEmpty(ResultOf("loadavg"))) => load_1m = DefaultLoad

\* C2: every line main prints, whatever the four sources hold, is one
\* well-formed record: a single line, the five fields in their fixed order,
\* the two strings quoted, the three integers bare, nothing after the closing
\* delimiter but the newline.
C2_RecordWellFormed ==
    stdout # <<>> => WellFormedRecord(stdout)

\* C5: read_meminfo(key) returns the second whitespace-delimited token of the
\* first line that starts with key, parsed as an unsigned integer, and 0 when
\* the source is unreadable, no line starts with key, or that token is missing
\* or unparsable; a later matching line is never consulted.
C5_MeminfoFirstMatch ==
    /\ Logged("memtotal") => MeminfoAgrees(mem_total_kb, ResultOf("memtotal"), MemTotalKey)
    /\ Logged("memfree") => MeminfoAgrees(mem_free_kb, ResultOf("memfree"), MemFreeKey)

\* C5 witness: the first "MemTotal:" line has an unparsable token and a later
\* one a parsable token; the total is 0 and the free figure is read.
C5_NoFallThroughReached ==
    /\ pc = "sleep"
    /\ files[MeminfoPath] = Ok(MeminfoNoFallThrough)
    /\ mem_total_kb = 0
    /\ mem_free_kb = 7

\* C6: read_uptime returns the first whitespace-delimited token of the uptime
\* source, parsed as a floating-point value, with the fraction discarded
\* (never rounded up); 0 on a read error, a missing or an unparsable token.
C6_UptimeTruncated ==
    Logged("uptime") => UptimeAgrees(uptime, ResultOf("uptime"))

\* C6 witness: "12345.67 6789.01" was read and gave 12345.
C6_ExampleReached ==
    /\ pc = "sleep"
    /\ files[UptimePath] = Ok(UptimeExample)
    /\ uptime = 12345

\* C7: read_loadavg returns the first whitespace-delimited token of the
\* load-average source character for character, and "0.00" when the source
\* is unreadable or holds no token.
C7_LoadavgVerbatim ==
    Logged("loadavg") => LoadavgAgrees(load_1m, ResultOf("loadavg"))

\* C7 witness: "0.52 0.41 0.33 2/456 7890" was read and gave "0.52".
C7_ExampleReached ==
    /\ pc = "sleep"
    /\ files[LoadavgPath] = Ok(LoadavgExample)
    /\ load_1m = <<"0", ".", "5", "2">>

----------------------------------------------------------------------------
(* Claims about main, under Spec and FairSpec *)

Readers ==
    {"hostname", "uptime", "memtotal", "memfree", "loadavg"}

PathOf(reader) ==
    CASE reader = "hostname" -> HostnamePath
      [] reader = "uptime"   -> UptimePath
      [] reader = "memtotal" -> MeminfoPath
      [] reader = "memfree"  -> MeminfoPath
      [] reader = "loadavg"  -> LoadavgPath

\* What `reader` read for the record at hand.
SeenBy(reader) ==
    IF reader = "hostname" THEN hostLog[1] ELSE ResultOf(reader)

\* The field `reader` produced for the record at hand.
FieldOf(reader) ==
    CASE reader = "hostname" -> hostname
      [] reader = "uptime"   -> uptime
      [] reader = "memtotal" -> mem_total_kb
      [] reader = "memfree"  -> mem_free_kb
      [] reader = "loadavg"  -> load_1m

\* The field `reader` produces over the file system fs.
FieldOver(reader, fs) ==
    CASE reader = "hostname" -> read_hostname(fs)
      [] reader = "uptime"   -> read_uptime(fs)
      [] reader = "memtotal" -> read_meminfo(fs, MemTotalKey)
      [] reader = "memfree"  -> read_meminfo(fs, MemFreeKey)
      [] reader = "loadavg"  -> read_loadavg(fs)

AllReadsFailed ==
    /\ Len(readLog) = 4
    /\ \A i \in 1..Len(readLog) : ~readLog[i].result.ok

\* C3: main has no terminal state; every pass through the loop body prints
\* exactly one record before its sleep starts; every sleep lasts the fixed 30
\* seconds and leads back to sampling; whatever the sources hold or fail to
\* hold, a further record is always eventually printed.
C3_LoopForever ==
    /\ [](ENABLED Step)
    /\ [](pc = "sleep" => emits = 1)
    /\ [](pc \in {"uptime", "memtotal", "memfree", "loadavg", "print"} => emits = 0)
    /\ [][(pc = "sleep" /\ pc' # "sleep") => (pc' = "uptime" /\ lastSleep' = 30)]_vars
    /\ []<><<Emit>>_vars

\* C3 witness: a second or later cycle in which every read failed has printed
\* its record and sleeps.
C3_FailedCycleEmitted ==
    /\ pc = "sleep"
    /\ lastSleep = 30
    /\ AllReadsFailed
    /\ emits = 1

\* C4: the hostname source is read once, in INIT, before anything is sampled
\* or printed, and never in a cycle; the hostname of every record is that one
\* result (the content trimmed, or "unknown" when the read failed), whatever
\* the hostname source holds later.
C4_HostnameResolvedOnce ==
    /\ pc = "init" => (hostLog = <<>> /\ readLog = <<>> /\ stdout = <<>>)
    /\ pc # "init" => (Len(hostLog) = 1 /\ HostnameAgrees(hostname, hostLog[1]))
    /\ \A i \in 1..Len(readLog) : readLog[i].path # HostnamePath
    /\ stdout # <<>> => Matches(stdout, 1, KeyHostname \o hostname \o KeyUptime)

\* C4 witness: the hostname source changed after INIT, a whole cycle ran after
\* the change, and the record still carries the trimmed name read in INIT.
C4_ChangedSourceIgnored ==
    /\ pc = "sleep"
    /\ stableCount >= 1
    /\ hostLog[1] = Ok(HostNode1)
    /\ files[HostnamePath] = Absent
    /\ hostname = <<"n", "o", "d", "e", "1">>

\* C8: in a finished cycle, each field is what its reader gives on the
\* content it read, whether any other source is missing or holds anything
\* else: two runs that differ only in another reader's source agree on it.
C8_FieldIndependence ==
    pc = "sleep" =>
        \A reader \in Readers :
            \A other \in Paths \ {PathOf(reader)} :
                \A r \in LiveSources(other) :
                    FieldOver(reader, [files EXCEPT ![PathOf(reader)] = SeenBy(reader),
                                                    ![other] = r])
                        = FieldOf(reader)

\* C8 witness: a cycle whose uptime read failed and whose other reads succeeded.
C8_OneReaderFailed ==
    /\ pc = "sleep"
    /\ ~ResultOf("uptime").ok
    /\ uptime = 0
    /\ mem_total_kb = 8000000
    /\ mem_free_kb = 4000000
    /\ load_1m = <<"1", ".", "0", "0">>

\* The line main prints for what the four reads of the cycle returned.
RecordOfCycle ==
    println(format_record(
        hostname,
        read_uptime([files EXCEPT ![UptimePath] = ResultOf("uptime")]),
        read_meminfo([files EXCEPT ![MeminfoPath] = ResultOf("memtotal")], MemTotalKey),
        read_meminfo([files EXCEPT ![MeminfoPath] = ResultOf("memfree")], MemFreeKey),
        read_loadavg([files EXCEPT ![LoadavgPath] = ResultOf("loadavg")])))

\* C9: the records of consecutive cycles over unchanged sources are
\* identical, and each record is determined by the reads of its own cycle
\* (and the hostname), never by an earlier cycle.
C9_RecordsRebuilt ==
    /\ Cardinality(stableOut) <= 1
    /\ pc = "sleep" => stdout = RecordOfCycle

\* C9 witness: two cycles ran over unchanged sources, with an unreadable
\* uptime source, and printed the same line.
C9_TwoStableCycles ==
    /\ pc = "sleep"
    /\ stableCount >= 2
    /\ stableOut = {stdout}
    /\ ~files[UptimePath].ok

ReadOrder ==
    <<"uptime", "memtotal", "memfree", "loadavg">>

ReadsDoneAt(at) ==
    CASE at \in {"init", "uptime"} -> 0
      [] at = "memtotal" -> 1
      [] at = "memfree"  -> 2
      [] at = "loadavg"  -> 3
      [] at \in {"print", "sleep"} -> 4

\* C10: a cycle reads uptime once, memory-info twice (for "MemTotal:", then
\* for "MemFree:"), load-average once and hostname never, failed reads
\* included (no retry); mem_free_kb comes from what the memory-info source
\* held at the second read.
C10_ReadsPerCycle ==
    /\ Len(readLog) = ReadsDoneAt(pc)
    /\ \A i \in 1..Len(readLog) :
           /\ readLog[i].reader = ReadOrder[i]
           /\ readLog[i].path = PathOf(ReadOrder[i])
    /\ Logged("memfree") => MeminfoAgrees(mem_free_kb, ResultOf("memfree"), MemFreeKey)

\* C10 witness: the uptime read failed, the memory-info source changed between
\* its two reads, and mem_free_kb is not what the first text would have given.
C10_ChangedBetweenReads ==
    /\ pc = "sleep"
    /\ ~ResultOf("uptime").ok
    /\ ResultOf("memtotal") # ResultOf("memfree")
    /\ ~MeminfoAgrees(mem_free_kb, ResultOf("memtotal"), MemFreeKey)

====
